---------------------------- MODULE Spec2Model ----------------------------
(***************************************************************************)
(* Wave function collapse.                                                 *)
(*                                                                         *)
(* Spec is the collapse loop of WaveFunctionCollapse::collapse             *)
(* (src/src/lib.rs) driving the board of src/src/board.rs, whose worklist  *)
(* propagation consults the constraint list of src/src/constraints.rs and  *)
(* the cells of src/src/cell.rs. A propagation that finds no index left    *)
(* for a cell ends the run: board.rs returns Err(CellHasZeroEntropy(pos)). *)
(*                                                                         *)
(* LibSpec is the same loop driving the Board that lib.rs itself defines,  *)
(* whose propagate is recursive and panics where no index is left.         *)
(*                                                                         *)
(* FourTileSpec is Spec on tile lists of up to four tiles, WeightedSpec is  *)
(* Spec for a solver built with with_weights, BuildSpec is the             *)
(* construction (new, with_weights) with the capacity C of the cells, and  *)
(* SeedSpec is collapse_tiles: every seed is collapsed with                *)
(* Board::collapse_position, then Board::propagate runs from each.         *)
(*                                                                         *)
(* CellSpec drives one ConstCell, one BitCell and one DynCell of           *)
(* src/src/cell.rs with the same collapse and set_indices calls.           *)
(*                                                                         *)
(* Tile indices are 0-based as in the code; TLA+ sequences are 1-based, so *)
(* the array element a[i] of the code is a[i + 1] here. A cell is the      *)
(* slice tile_indices[0..entropy] of the code, the part of the array the   *)
(* code reads.                                                             *)
(***************************************************************************)
EXTENDS Integers, Sequences, FiniteSets, TLC

(* ------------------------------ bounds -------------------------------- *)

\* the boards explored have at most MaxCells cells (width * height)
MaxCells == 6

\* the tile lists explored are the prefixes of AllTiles
AllTiles == <<"Water", "Sand", "Forest">>

\* a tile list of four tiles: the tile type is generic, the fourth tile is one more value
FourTiles == AllTiles \o <<"Rock">>

\* the largest side of the boards of the four-tile specification
MaxSide == 2

\* the bounds of the constructions: the capacity C of a cell, the tile count, a weight
MaxCapacity == 3
MaxTiles == 4
MaxWeight == 1

\* the number of values of u8
U8 == 256

\* the cells of the boards of the runs of collapse_tiles and of the weighted runs, and
\* the seeds of collapse_tiles
MaxSmallCells == 4
MaxSeeds == 2

VARIABLES
    width,                   \* Board.width
    height,                  \* Board.height
    tiles,                   \* WaveFunctionCollapse.tiles
    constraints,             \* TileConstraints.constraints: a list of PossibleNeighbours
    cells,                   \* Board.cells: per cell the slice tile_indices[0..entropy]
    not_collapsed_positions, \* Board.not_collapsed_positions
    min_non_collapsed,       \* Board.min_non_collapsed: None or (position, copy of the cell)
    propagation_queue,       \* Board.propagation_queue
    pc,                      \* where the run of collapse() stands
    collapsed_position,      \* the position handed to propagate / popped from the queue
    nidx,                    \* which cardinal neighbour the for loop of propagate is at
    frames,                  \* the calls of the recursive propagate of lib.rs, innermost last
    outcome,                 \* "running", "Ok", "Err" or the panic that ended the run
    error,                   \* the position carried by WfcError::CellHasZeroEntropy
    result,                  \* the Vec<(Position, T)> collapse() returns
    pops,                    \* positions popped by the current propagate call
    weights,                 \* WaveFunctionCollapse.weights: NoWeights or one weight per tile
    seeds,                   \* the (position, tile) list handed to collapse_tiles
    seed_i,                  \* the seed collapse_tiles is at; 0 outside collapse_tiles
    build,                   \* the construction of a solver: its inputs and its product
    reps                     \* one cell in each representation of cell.rs, driven by the same calls

vars == <<width, height, tiles, constraints, cells, not_collapsed_positions,
          min_non_collapsed, propagation_queue, pc, collapsed_position, nidx,
          frames, outcome, error, result, pops, weights, seeds, seed_i, build, reps>>

\* what the run never changes, and the call stack only lib.rs's propagate uses
config == <<width, height, tiles, constraints, weights, seeds>>
fixed == <<config, frames, seed_i, build, reps>>

\* Option::None of the weights, and the build variable of a run that starts built
NoWeights == [some |-> FALSE, w |-> <<>>]
NoBuild == [stage |-> "built"]

\* the reps variable of a run that drives a board, not single cells
NoReps == [made |-> {}]

\* Some(weights) of Option<[f32; C]>
Some(w) == [some |-> TRUE, w |-> w]

\* what a call ends with: a panic, or a value
Panic == [ok |-> FALSE]
Ok(v) == [ok |-> TRUE, v |-> v]

None == [pos |-> <<-1, -1>>, cell |-> <<>>]

(* ----------------------- positions (crate pad) ------------------------ *)

\* Position::cardinal_neighbours: left, right, up, down
cardinal_neighbours(p) ==
    << <<p[1] - 1, p[2]>>, <<p[1] + 1, p[2]>>, <<p[1], p[2] - 1>>, <<p[1], p[2] + 1>> >>

\* p!(0, 0).iter_to(p!(w - 1, h - 1)): all positions, row by row
iter_to(w, h) == [k \in 1..(w * h) |-> <<(k - 1) % w, (k - 1) \div w>>]

(* ------------------------------- cells -------------------------------- *)

\* Cell::new: every tile index 0..num_tiles-1 is possible
new_cell(num_tiles) == [k \in 1..num_tiles |-> k - 1]

\* Cell::entropy
entropy(cell) == Len(cell)

\* Cell::is_collapsed
is_collapsed(cell) == entropy(cell) = 1

\* Cell::collapse
collapse_cell(cell, index) == <<index>>

\* Cell::set_indices
set_indices(cell, indices) == indices

\* Cell::get_collapsed_index
get_collapsed_index(cell) == cell[1]

(* ----------------------------- constraints ---------------------------- *)

\* get_index of PossibleNeighbours::new: the first position of the tile in the list
get_index(all_tiles, tile) ==
    (CHOOSE k \in 1..Len(all_tiles) :
        /\ all_tiles[k] = tile
        /\ \A j \in 1..(k - 1) : all_tiles[j] # tile) - 1

\* PossibleNeighbours::new: the pairs of tiles as pairs of tile indices
PossibleNeighbours_new(allowed_neighbours, all_tiles) ==
    {<<get_index(all_tiles, pr[1]), get_index(all_tiles, pr[2])>> : pr \in allowed_neighbours}

\* PossibleNeighbours::valid with any in the place of all: one neighbour that
\* matches is taken to be enough
PossibleNeighbours_valid_any(allowed_neighbours, tile, neighbours) ==
    \E k \in 1..Len(neighbours) :
        \E m \in 1..Len(neighbours[k]) :
            \/ <<tile, neighbours[k][m]>> \in allowed_neighbours
            \/ <<neighbours[k][m], tile>> \in allowed_neighbours

\* PossibleNeighbours::valid that looks a pair up as (tile, neighbour tile) only
PossibleNeighbours_valid_ordered(allowed_neighbours, tile, neighbours) ==
    \A k \in 1..Len(neighbours) :
        \E m \in 1..Len(neighbours[k]) :
            <<tile, neighbours[k][m]>> \in allowed_neighbours

\* PossibleNeighbours::valid: for every neighbour, one possible tile must match
PossibleNeighbours_valid(allowed_neighbours, tile, neighbours) ==
    \A k \in 1..Len(neighbours) :
        \E m \in 1..Len(neighbours[k]) :
            \/ <<tile, neighbours[k][m]>> \in allowed_neighbours
            \/ <<neighbours[k][m], tile>> \in allowed_neighbours

\* the inner loop of update_cell that lets the constraint added last decide
all_constraints_valid_last(cs, tile, neighbours) ==
    cs = <<>> \/ PossibleNeighbours_valid(cs[Len(cs)], tile, neighbours)

\* the inner loop of update_cell: every constraint of the list accepts the tile
all_constraints_valid(cs, tile, neighbours) ==
    \A c \in 1..Len(cs) : PossibleNeighbours_valid(cs[c], tile, neighbours)

\* update_cell that asks the first constraint of the list only
update_cell_first_constraint(cs, cell_tiles, neighbours) ==
    SelectSeq(cell_tiles,
              LAMBDA index : cs = <<>> \/ PossibleNeighbours_valid(cs[1], index, neighbours))

\* TileConstraints::update_cell followed by CellUpdate::new_indices
update_cell(cs, cell_tiles, neighbours) ==
    SelectSeq(cell_tiles, LAMBDA index : all_constraints_valid(cs, index, neighbours))

\* CellUpdate::new_weights of update_cell: next to every index that is kept, the entry
\* of all_weights at the place the index has in cell_tiles (PossibleNeighbours
\* multiplies by 1.0)
update_cell_new_weights(cs, cell_tiles, neighbours, all_weights) ==
    LET places == SelectSeq([i \in 1..Len(cell_tiles) |-> i],
                            LAMBDA i : all_constraints_valid(cs, cell_tiles[i], neighbours))
    IN  [k \in 1..Len(places) |-> all_weights[places[k]]]

(* ------------------------------- board -------------------------------- *)

pos_in_bounds_wide(pos) ==
    pos[1] >= 0 /\ pos[2] >= 0 /\ pos[1] <= width /\ pos[2] < height

\* Board::pos_in_bounds
pos_in_bounds(pos) ==
    pos[1] >= 0 /\ pos[2] >= 0 /\ pos[1] < width /\ pos[2] < height

\* the index into Board.cells used by get_cell and get_cell_mut
cell_index(pos) == width * pos[2] + pos[1] + 1

\* Board::get_cell
get_cell(pos) == cells[cell_index(pos)]

\* not_collapsed_positions -= 1 on a usize: at 0 the subtraction panics where
\* overflow checks are compiled in and wraps where they are not. A wrapped value
\* 2^64 - k is written -k here.
sub_one_outcomes(n) == IF n = 0 THEN {"wrap", "panic"} ELSE {"ok"}

\* Board::collapsed one position too early
collapsed_one_early == not_collapsed_positions <= 1

\* Board::collapsed
collapsed == not_collapsed_positions = 0

\* the neighbour snapshot taken by propagate for the cell at pos
neighbour_snapshot(pos) ==
    LET in_bounds == SelectSeq(cardinal_neighbours(pos), pos_in_bounds)
    IN  [k \in 1..Len(in_bounds) |-> get_cell(in_bounds[k])]

\* the cell update propagate computes for the cell at pos
new_indices_at(pos) == update_cell(constraints, get_cell(pos), neighbour_snapshot(pos))

\* get_min_entropy_position without the filter on the entropy: the first cell of least
\* entropy, collapsed or not
min_entropy_index_any ==
    CHOOSE k \in 1..Len(cells) :
        \A j \in 1..Len(cells) :
            \/ entropy(cells[k]) < entropy(cells[j])
            \/ (entropy(cells[k]) = entropy(cells[j]) /\ k <= j)

\* Board::get_min_entropy_position: the first cell of least entropy > 1
\* (0 when there is none and the expect panics)
min_entropy_index ==
    LET cand == {k \in 1..Len(cells) : entropy(cells[k]) > 1}
    IN  IF cand = {} THEN 0
        ELSE CHOOSE k \in cand :
                \A j \in cand : \/ entropy(cells[k]) < entropy(cells[j])
                                \/ entropy(cells[k]) = entropy(cells[j]) /\ k <= j

\* Board::get_collapsed_indices
get_collapsed_indices ==
    [k \in 1..(width * height) |->
        <<iter_to(width, height)[k], get_collapsed_index(get_cell(iter_to(width, height)[k]))>>]

\* the update of min_non_collapsed at the end of a propagation step
next_min_non_collapsed(min, pos, cell) ==
    IF is_collapsed(cell)
    THEN IF min # None /\ min.pos = pos THEN None ELSE min
    ELSE IF min # None /\ entropy(cell) < entropy(min.cell) THEN [pos |-> pos, cell |-> cell]
         ELSE IF min # None THEN min
         ELSE [pos |-> pos, cell |-> cell]

(* ------------------------------ inputs -------------------------------- *)

\* the tile lists: the non-empty prefixes of AllTiles
TileLists == {SubSeq(AllTiles, 1, n) : n \in 1..Len(AllTiles)}

\* the pairs a caller can hand to PossibleNeighbours::new for a tile list
TilePairs(ts) ==
    {<<ts[a], ts[b]>> : a \in 1..Len(ts), b \in 1..Len(ts)}

\* the pair lists explored: every set of unordered pairs, each pair written with the
\* earlier tile of the list first throughout, or with the later tile first throughout
PairLists(ts) ==
    {ps \in SUBSET TilePairs(ts) :
        \/ \A pr \in ps : get_index(ts, pr[1]) <= get_index(ts, pr[2])
        \/ \A pr \in ps : get_index(ts, pr[1]) >= get_index(ts, pr[2])}

\* the pair lists with the earlier tile of the list first in every pair
ForwardPairLists(ts) ==
    {ps \in SUBSET TilePairs(ts) :
        \A pr \in ps : get_index(ts, pr[1]) <= get_index(ts, pr[2])}

\* the constraint lists explored: none, or one PossibleNeighbours
ConstraintLists(ts) ==
    {<<>>} \cup {<<PossibleNeighbours_new(ps, ts)>> : ps \in PairLists(ts)}

(* ------------------------------- Init --------------------------------- *)

\* WaveFunctionCollapse::new with Board::new, then with_constraint
Init ==
    /\ width \in 1..MaxCells
    /\ height \in 1..MaxCells
    /\ width * height <= MaxCells
    /\ tiles \in TileLists
    /\ constraints \in ConstraintLists(tiles)
    /\ cells = [k \in 1..(width * height) |-> new_cell(Len(tiles))]
    /\ not_collapsed_positions = width * height
    /\ min_non_collapsed = None
    /\ propagation_queue = <<>>
    /\ pc = "loop"
    /\ collapsed_position = <<0, 0>>
    /\ nidx = 1
    /\ frames = <<>>
    /\ outcome = "running"
    /\ error = <<-1, -1>>
    /\ result = <<>>
    /\ pops = 0
    /\ weights = NoWeights
    /\ seeds = <<>>
    /\ seed_i = 0
    /\ build = NoBuild
    /\ reps = NoReps

\* the same construction with up to four tiles on the boards of side <= MaxSide
FourTileInit ==
    /\ width \in 1..MaxSide
    /\ height \in 1..MaxSide
    /\ tiles \in {SubSeq(FourTiles, 1, n) : n \in 1..Len(FourTiles)}
    /\ constraints \in {<<>>} \cup {<<PossibleNeighbours_new(ps, tiles)>> :
                                       ps \in ForwardPairLists(tiles)}
    /\ cells = [k \in 1..(width * height) |-> new_cell(Len(tiles))]
    /\ not_collapsed_positions = width * height
    /\ min_non_collapsed = None
    /\ propagation_queue = <<>>
    /\ pc = "loop"
    /\ collapsed_position = <<0, 0>>
    /\ nidx = 1
    /\ frames = <<>>
    /\ outcome = "running"
    /\ error = <<-1, -1>>
    /\ result = <<>>
    /\ pops = 0
    /\ weights = NoWeights
    /\ seeds = <<>>
    /\ seed_i = 0
    /\ build = NoBuild
    /\ reps = NoReps

(* ------------------------- the collapse loop --------------------------- *)

\* Random::choose: any of the choices
choose(choices) == Ok({choices[k] : k \in 1..Len(choices)})

\* Random::choose_weighted: WeightedIndex::new refuses an empty list, a negative weight
\* and a list whose sum is zero, and the unwrap panics; otherwise the sample is a choice
\* whose weight is not zero
choose_weighted(ws, choices) ==
    IF \/ Len(ws) = 0
       \/ \E k \in 1..Len(ws) : ws[k] < 0
       \/ \A k \in 1..Len(ws) : ws[k] = 0
    THEN Panic
    ELSE Ok({choices[k] : k \in {j \in 1..Len(ws) : ws[j] > 0}})

\* the possible_weights of choose_next_index: the weight of every possible index
possible_weights(possible_indices) ==
    [k \in 1..Len(possible_indices) |-> weights.w[possible_indices[k] + 1]]

\* choose_next_index: the weighted choice if there are weights, the plain one if not
choose_next_index(possible_indices) ==
    IF weights.some THEN choose_weighted(possible_weights(possible_indices), possible_indices)
    ELSE choose(possible_indices)

\* the position and cell the loop of collapse() selects: the cached min_non_collapsed
\* if there is one, the result of get_min_entropy_position otherwise
selected ==
    IF min_non_collapsed # None THEN min_non_collapsed
    ELSE [pos  |-> iter_to(width, height)[min_entropy_index],
          cell |-> cells[min_entropy_index]]

\* the iteration that reads the cached cell and leaves it in the cache
CollapseNext_keeps_cache ==
    /\ pc = "loop"
    /\ ~collapsed
    /\ min_non_collapsed # None \/ min_entropy_index # 0
    /\ choose_next_index(selected.cell).ok
    /\ \E index \in choose_next_index(selected.cell).v :
          /\ cells' = [cells EXCEPT ![cell_index(selected.pos)] = collapse_cell(@, index)]
          /\ collapsed_position' = selected.pos
    /\ min_non_collapsed' = min_non_collapsed
    /\ not_collapsed_positions' = not_collapsed_positions - 1
    /\ pc' = "call_propagate"
    /\ UNCHANGED <<fixed, propagation_queue, nidx, outcome, error, result, pops>>

\* the iteration whose collapse_position leaves the count of open positions as it is
CollapseNext_uncounted ==
    /\ pc = "loop"
    /\ ~collapsed
    /\ min_non_collapsed # None \/ min_entropy_index # 0
    /\ choose_next_index(selected.cell).ok
    /\ \E index \in choose_next_index(selected.cell).v :
          /\ cells' = [cells EXCEPT ![cell_index(selected.pos)] = collapse_cell(@, index)]
          /\ collapsed_position' = selected.pos
    /\ min_non_collapsed' = None
    /\ pc' = "call_propagate"
    /\ UNCHANGED <<fixed, not_collapsed_positions, propagation_queue, nidx, outcome,
                   error, result, pops>>

\* one iteration of the loop of collapse() up to collapse_position: take the cached
\* best cell or scan the board, choose one of the indices of that cell, collapse
CollapseNext ==
    /\ pc = "loop"
    /\ ~collapsed
    /\ min_non_collapsed # None \/ min_entropy_index # 0
    /\ choose_next_index(selected.cell).ok
    /\ \E index \in choose_next_index(selected.cell).v :
          /\ cells' = [cells EXCEPT ![cell_index(selected.pos)] = collapse_cell(@, index)]
          /\ collapsed_position' = selected.pos
    /\ min_non_collapsed' = None
    /\ not_collapsed_positions' = not_collapsed_positions - 1
    /\ pc' = "call_propagate"
    /\ UNCHANGED <<fixed, propagation_queue, nidx, outcome, error, result, pops>>

\* the unwrap of choose_weighted panics: collapse() ends with the panic
ChoosePanic ==
    /\ pc = "loop"
    /\ ~collapsed
    /\ min_non_collapsed # None \/ min_entropy_index # 0
    /\ ~choose_next_index(selected.cell).ok
    /\ outcome' = "PanicWeights"
    /\ pc' = "done"
    /\ UNCHANGED <<fixed, cells, not_collapsed_positions, min_non_collapsed,
                   propagation_queue, collapsed_position, nidx, error, result, pops>>

\* get_min_entropy_position finds no cell of entropy > 1: its expect panics
MinEntropyPanic ==
    /\ pc = "loop"
    /\ ~collapsed
    /\ min_non_collapsed = None
    /\ min_entropy_index = 0
    /\ outcome' = "PanicNoCell"
    /\ pc' = "done"
    /\ UNCHANGED <<fixed, cells, not_collapsed_positions, min_non_collapsed,
                   propagation_queue, collapsed_position, nidx, error, result, pops>>

\* the board is collapsed: collapse() maps the collapsed indices to their tiles
Finish ==
    /\ pc = "loop"
    /\ collapsed
    /\ result' = [k \in 1..(width * height) |->
                    <<get_collapsed_indices[k][1], tiles[get_collapsed_indices[k][2] + 1]>>]
    /\ outcome' = "Ok"
    /\ pc' = "done"
    /\ UNCHANGED <<fixed, cells, not_collapsed_positions, min_non_collapsed,
                   propagation_queue, collapsed_position, nidx, error, pops>>

(* ----------------------------- propagate ------------------------------ *)

\* propagate is entered: the queue is initialised with the collapsed position
PropagateCall ==
    /\ pc = "call_propagate"
    /\ propagation_queue' = Append(propagation_queue, collapsed_position)
    /\ pops' = 0
    /\ pc' = "while"
    /\ UNCHANGED <<fixed, cells, not_collapsed_positions, min_non_collapsed,
                   collapsed_position, nidx, outcome, error, result>>

\* the pop that takes the front and drops the rest of the queue
Pop_drops_rest ==
    /\ pc = "while"
    /\ propagation_queue # <<>>
    /\ collapsed_position' = Head(propagation_queue)
    /\ propagation_queue' = <<>>
    /\ pops' = pops + 1
    /\ nidx' = 1
    /\ pc' = "for"
    /\ UNCHANGED <<fixed, cells, not_collapsed_positions, min_non_collapsed,
                   outcome, error, result>>

\* the head of the while loop with a non-empty queue: pop the front
Pop ==
    /\ pc = "while"
    /\ propagation_queue # <<>>
    /\ collapsed_position' = Head(propagation_queue)
    /\ propagation_queue' = Tail(propagation_queue)
    /\ pops' = pops + 1
    /\ nidx' = 1
    /\ pc' = "for"
    /\ UNCHANGED <<fixed, cells, not_collapsed_positions, min_non_collapsed,
                   outcome, error, result>>

\* the head of the while loop with an empty queue: propagate returns Ok(()) to its
\* caller, the loop of collapse() or the second loop of collapse_tiles
PropagateOk ==
    /\ pc = "while"
    /\ propagation_queue = <<>>
    /\ pc' = IF seed_i = 0 THEN "loop" ELSE "seed_propagate"
    /\ UNCHANGED <<fixed, cells, not_collapsed_positions, min_non_collapsed,
                   propagation_queue, collapsed_position, nidx, outcome, error,
                   result, pops>>

\* the neighbour the for loop of propagate is at
neighbour == cardinal_neighbours(collapsed_position)[nidx]

\* the for loop that starts over at the first neighbour in the place of ending
ForNext_starts_over ==
    /\ nidx' = IF nidx = 4 THEN 1 ELSE nidx + 1
    /\ pc' = "for"

\* the for loop goes on to the next neighbour, or back to the while loop
ForNext ==
    /\ nidx' = IF nidx = 4 THEN 1 ELSE nidx + 1
    /\ pc' = IF nidx = 4 THEN "while" ELSE "for"

\* the neighbour is out of bounds: continue
SkipOutOfBounds ==
    /\ pc = "for"
    /\ ~pos_in_bounds(neighbour)
    /\ ForNext
    /\ UNCHANGED <<fixed, cells, not_collapsed_positions, min_non_collapsed,
                   propagation_queue, collapsed_position, outcome, error, result, pops>>

\* the neighbour is already collapsed: continue
SkipCollapsed ==
    /\ pc = "for"
    /\ pos_in_bounds(neighbour)
    /\ is_collapsed(get_cell(neighbour))
    /\ ForNext
    /\ UNCHANGED <<fixed, cells, not_collapsed_positions, min_non_collapsed,
                   propagation_queue, collapsed_position, outcome, error, result, pops>>

\* the error that carries the popped position in the place of the neighbour's
Contradiction_at_popped ==
    /\ pc = "for"
    /\ pos_in_bounds(neighbour)
    /\ ~is_collapsed(get_cell(neighbour))
    /\ new_indices_at(neighbour) = <<>>
    /\ error' = collapsed_position
    /\ outcome' = "Err"
    /\ pc' = "done"
    /\ UNCHANGED <<fixed, cells, not_collapsed_positions, min_non_collapsed,
                   propagation_queue, collapsed_position, nidx, result, pops>>

\* the emptiness check made after the cell was written in the place of before
Contradiction_after_write ==
    /\ pc = "for"
    /\ pos_in_bounds(neighbour)
    /\ ~is_collapsed(get_cell(neighbour))
    /\ new_indices_at(neighbour) = <<>>
    /\ cells' = [cells EXCEPT ![cell_index(neighbour)] =
                                 set_indices(@, new_indices_at(neighbour))]
    /\ error' = neighbour
    /\ outcome' = "Err"
    /\ pc' = "done"
    /\ UNCHANGED <<fixed, not_collapsed_positions, min_non_collapsed,
                   propagation_queue, collapsed_position, nidx, result, pops>>

\* no tile of the neighbour fulfils all constraints: return Err(CellHasZeroEntropy(pos))
Contradiction ==
    /\ pc = "for"
    /\ pos_in_bounds(neighbour)
    /\ ~is_collapsed(get_cell(neighbour))
    /\ new_indices_at(neighbour) = <<>>
    /\ error' = neighbour
    /\ outcome' = "Err"
    /\ pc' = "done"
    /\ UNCHANGED <<fixed, cells, not_collapsed_positions, min_non_collapsed,
                   propagation_queue, collapsed_position, nidx, result, pops>>

\* the neighbour whose indices did not change queued all the same
Unchanged_pushes ==
    /\ pc = "for"
    /\ pos_in_bounds(neighbour)
    /\ ~is_collapsed(get_cell(neighbour))
    /\ new_indices_at(neighbour) # <<>>
    /\ get_cell(neighbour) = new_indices_at(neighbour)
    /\ propagation_queue' = Append(propagation_queue, neighbour)
    /\ ForNext
    /\ UNCHANGED <<fixed, cells, not_collapsed_positions, min_non_collapsed,
                   collapsed_position, outcome, error, result, pops>>

\* the neighbour whose indices did not change recorded in the cache all the same
Unchanged_records_cache ==
    /\ pc = "for"
    /\ pos_in_bounds(neighbour)
    /\ ~is_collapsed(get_cell(neighbour))
    /\ new_indices_at(neighbour) # <<>>
    /\ get_cell(neighbour) = new_indices_at(neighbour)
    /\ min_non_collapsed' =
          next_min_non_collapsed(min_non_collapsed, neighbour, get_cell(neighbour))
    /\ ForNext
    /\ UNCHANGED <<fixed, cells, not_collapsed_positions, propagation_queue,
                   collapsed_position, outcome, error, result, pops>>

\* the indices of the neighbour did not change: continue
Unchanged ==
    /\ pc = "for"
    /\ pos_in_bounds(neighbour)
    /\ ~is_collapsed(get_cell(neighbour))
    /\ new_indices_at(neighbour) # <<>>
    /\ get_cell(neighbour) = new_indices_at(neighbour)
    /\ ForNext
    /\ UNCHANGED <<fixed, cells, not_collapsed_positions, min_non_collapsed,
                   propagation_queue, collapsed_position, outcome, error, result, pops>>

\* the reduced neighbour written but not queued
Reduce_without_push ==
    /\ pc = "for"
    /\ pos_in_bounds(neighbour)
    /\ ~is_collapsed(get_cell(neighbour))
    /\ new_indices_at(neighbour) # <<>>
    /\ get_cell(neighbour) # new_indices_at(neighbour)
    /\ cells' = [cells EXCEPT ![cell_index(neighbour)] =
                                 set_indices(@, new_indices_at(neighbour))]
    /\ min_non_collapsed' =
          next_min_non_collapsed(min_non_collapsed, neighbour, cells'[cell_index(neighbour)])
    /\ not_collapsed_positions' =
          IF is_collapsed(cells'[cell_index(neighbour)])
          THEN not_collapsed_positions - 1 ELSE not_collapsed_positions
    /\ ForNext
    /\ UNCHANGED <<fixed, propagation_queue, collapsed_position, outcome, error,
                   result, pops>>

\* the new indices written to the popped cell in the place of the neighbour
Reduce_writes_popped ==
    /\ pc = "for"
    /\ pos_in_bounds(neighbour)
    /\ ~is_collapsed(get_cell(neighbour))
    /\ new_indices_at(neighbour) # <<>>
    /\ get_cell(neighbour) # new_indices_at(neighbour)
    /\ propagation_queue' = Append(propagation_queue, neighbour)
    /\ cells' = [cells EXCEPT ![cell_index(collapsed_position)] =
                                 set_indices(@, new_indices_at(neighbour))]
    /\ min_non_collapsed' =
          next_min_non_collapsed(min_non_collapsed, neighbour, cells'[cell_index(neighbour)])
    /\ ForNext
    /\ UNCHANGED <<fixed, not_collapsed_positions, collapsed_position, outcome, error,
                   result, pops>>

\* the step that counts a position off at every write, collapsed by it or not
Reduce_counts_every_write ==
    /\ pc = "for"
    /\ pos_in_bounds(neighbour)
    /\ ~is_collapsed(get_cell(neighbour))
    /\ new_indices_at(neighbour) # <<>>
    /\ get_cell(neighbour) # new_indices_at(neighbour)
    /\ propagation_queue' = Append(propagation_queue, neighbour)
    /\ cells' = [cells EXCEPT ![cell_index(neighbour)] =
                                 set_indices(@, new_indices_at(neighbour))]
    /\ min_non_collapsed' =
          next_min_non_collapsed(min_non_collapsed, neighbour, cells'[cell_index(neighbour)])
    /\ \E sub \in sub_one_outcomes(not_collapsed_positions) :
          /\ not_collapsed_positions' =
                IF sub \in {"ok", "wrap"} THEN not_collapsed_positions - 1
                ELSE not_collapsed_positions
          /\ outcome' = IF sub = "panic" THEN "PanicOverflow" ELSE outcome
          /\ IF sub = "panic" THEN pc' = "done" /\ nidx' = nidx ELSE ForNext
    /\ UNCHANGED <<fixed, collapsed_position, error, result, pops>>

\* the indices of the neighbour changed: queue it, write the cell, update the caches
Reduce ==
    /\ pc = "for"
    /\ pos_in_bounds(neighbour)
    /\ ~is_collapsed(get_cell(neighbour))
    /\ new_indices_at(neighbour) # <<>>
    /\ get_cell(neighbour) # new_indices_at(neighbour)
    /\ propagation_queue' = Append(propagation_queue, neighbour)
    /\ cells' = [cells EXCEPT ![cell_index(neighbour)] =
                                 set_indices(@, new_indices_at(neighbour))]
    /\ min_non_collapsed' =
          next_min_non_collapsed(min_non_collapsed, neighbour, cells'[cell_index(neighbour)])
    /\ \E sub \in IF is_collapsed(cells'[cell_index(neighbour)])
                   THEN sub_one_outcomes(not_collapsed_positions) ELSE {"none"} :
          /\ not_collapsed_positions' =
                IF sub \in {"ok", "wrap"} THEN not_collapsed_positions - 1
                ELSE not_collapsed_positions
          /\ outcome' = IF sub = "panic" THEN "PanicOverflow" ELSE outcome
          /\ IF sub = "panic" THEN pc' = "done" /\ nidx' = nidx ELSE ForNext
    /\ UNCHANGED <<fixed, collapsed_position, error, result, pops>>

Next ==
    \/ CollapseNext
    \/ MinEntropyPanic
    \/ Finish
    \/ PropagateCall
    \/ Pop
    \/ PropagateOk
    \/ SkipOutOfBounds
    \/ SkipCollapsed
    \/ Contradiction
    \/ Unchanged
    \/ Reduce

Spec == Init /\ [][Next]_vars

\* collapse() is one synchronous computation: a step that can be taken is taken
FairSpec == Spec /\ WF_vars(Next)

\* a solver built with with_weights: one weight per tile
WeightedInit ==
    /\ width \in 1..MaxSmallCells
    /\ height \in 1..MaxSmallCells
    /\ width * height <= MaxSmallCells
    /\ tiles \in TileLists
    /\ constraints \in ConstraintLists(tiles)
    /\ weights \in {Some(w) : w \in [1..Len(tiles) -> 0..MaxWeight]}
    /\ cells = [k \in 1..(width * height) |-> new_cell(Len(tiles))]
    /\ not_collapsed_positions = width * height
    /\ min_non_collapsed = None
    /\ propagation_queue = <<>>
    /\ pc = "loop"
    /\ collapsed_position = <<0, 0>>
    /\ nidx = 1
    /\ frames = <<>>
    /\ outcome = "running"
    /\ error = <<-1, -1>>
    /\ result = <<>>
    /\ pops = 0
    /\ seeds = <<>>
    /\ seed_i = 0
    /\ build = NoBuild
    /\ reps = NoReps

WeightedNext ==
    \/ Next
    \/ ChoosePanic

\* collapse() of a solver with weights
WeightedSpec == WeightedInit /\ [][WeightedNext]_vars

\* collapse() on the boards and tile lists of FourTileInit
FourTileSpec == FourTileInit /\ [][Next]_vars

(* ------------------ lib.rs: its own recursive propagate --------------- *)

\* PossibleNeighbours::valid of lib.rs: the pair of the tile and the collapsed
\* neighbour's tile is allowed, in either order
lib_valid(allowed_neighbours, tile, nb) ==
    \E pr \in allowed_neighbours :
        (tile = pr[1] /\ nb = pr[2]) \/ (tile = pr[2] /\ nb = pr[1])

\* TileConstraints::get_possible_indices of lib.rs
lib_get_possible_indices(cs, possible_tiles, collapsed_neighbour) ==
    SelectSeq(possible_tiles,
              LAMBDA index : \A c \in 1..Len(cs) : lib_valid(cs[c], index, collapsed_neighbour))

\* the innermost call of propagate and the neighbour its for loop is at
top == frames[Len(frames)]
lib_neighbour == cardinal_neighbours(top.pos)[top.n]

\* the indices lib.rs's propagate computes for the neighbour
lib_new_indices == lib_get_possible_indices(constraints, get_cell(lib_neighbour), top.tile)

\* a call of propagate: the collapsed tile is read once, the for loop starts
lib_call(fs, pos) ==
    Append(fs, [pos |-> pos, tile |-> get_collapsed_index(get_cell(pos)), n |-> 1])

\* the for loop of the innermost call goes on to its next neighbour
lib_advance(fs) == [fs EXCEPT ![Len(fs)].n = @ + 1]

\* the update of min_non_collapsed in lib.rs's propagate
lib_next_min_non_collapsed(min, pos, cell) ==
    IF min # None /\ entropy(cell) < entropy(min.cell) THEN [pos |-> pos, cell |-> cell]
    ELSE IF min # None THEN min
    ELSE [pos |-> pos, cell |-> cell]

\* collapse() calls propagate
LibPropagateCall ==
    /\ pc = "call_propagate"
    /\ frames' = lib_call(frames, collapsed_position)
    /\ pc' = "lib_for"
    /\ UNCHANGED <<config, seed_i, reps, build, cells, not_collapsed_positions, min_non_collapsed,
                   propagation_queue, collapsed_position, nidx, outcome, error,
                   result, pops>>

\* the neighbour is off the board: continue
LibSkipOutOfBounds ==
    /\ pc = "lib_for"
    /\ top.n <= 4
    /\ ~pos_in_bounds(lib_neighbour)
    /\ frames' = lib_advance(frames)
    /\ UNCHANGED <<config, seed_i, reps, build, cells, not_collapsed_positions, min_non_collapsed,
                   propagation_queue, pc, collapsed_position, nidx, outcome, error,
                   result, pops>>

\* the neighbour is collapsed: continue
LibSkipCollapsed ==
    /\ pc = "lib_for"
    /\ top.n <= 4
    /\ pos_in_bounds(lib_neighbour)
    /\ is_collapsed(get_cell(lib_neighbour))
    /\ frames' = lib_advance(frames)
    /\ UNCHANGED <<config, seed_i, reps, build, cells, not_collapsed_positions, min_non_collapsed,
                   propagation_queue, pc, collapsed_position, nidx, outcome, error,
                   result, pops>>

\* no index is left for the neighbour: panic!("No new indices could be determined")
LibPanic ==
    /\ pc = "lib_for"
    /\ top.n <= 4
    /\ pos_in_bounds(lib_neighbour)
    /\ ~is_collapsed(get_cell(lib_neighbour))
    /\ lib_new_indices = <<>>
    /\ outcome' = "PanicNoIndices"
    /\ pc' = "done"
    /\ UNCHANGED <<fixed, cells, not_collapsed_positions, min_non_collapsed,
                   propagation_queue, collapsed_position, nidx, error, result, pops>>

\* the neighbour is left with one index: count it as collapsed and propagate from it
LibUpdateCollapsed ==
    /\ pc = "lib_for"
    /\ top.n <= 4
    /\ pos_in_bounds(lib_neighbour)
    /\ ~is_collapsed(get_cell(lib_neighbour))
    /\ Len(lib_new_indices) = 1
    /\ cells' = [cells EXCEPT ![cell_index(lib_neighbour)] = set_indices(@, lib_new_indices)]
    /\ \E sub \in sub_one_outcomes(not_collapsed_positions) :
          /\ not_collapsed_positions' =
                IF sub = "panic" THEN not_collapsed_positions ELSE not_collapsed_positions - 1
          /\ outcome' = IF sub = "panic" THEN "PanicOverflow" ELSE outcome
          /\ pc' = IF sub = "panic" THEN "done" ELSE pc
          /\ frames' = IF sub = "panic" THEN frames
                       ELSE Append(lib_advance(frames),
                                   [pos |-> lib_neighbour, tile |-> lib_new_indices[1], n |-> 1])
    /\ UNCHANGED <<config, seed_i, reps, build, min_non_collapsed, propagation_queue, collapsed_position,
                   nidx, error, result, pops>>

\* the neighbour keeps several indices: write them and update the cached best cell
LibUpdateCached ==
    /\ pc = "lib_for"
    /\ top.n <= 4
    /\ pos_in_bounds(lib_neighbour)
    /\ ~is_collapsed(get_cell(lib_neighbour))
    /\ Len(lib_new_indices) > 1
    /\ cells' = [cells EXCEPT ![cell_index(lib_neighbour)] = set_indices(@, lib_new_indices)]
    /\ min_non_collapsed' =
          lib_next_min_non_collapsed(min_non_collapsed, lib_neighbour, lib_new_indices)
    /\ frames' = lib_advance(frames)
    /\ UNCHANGED <<config, seed_i, reps, build, not_collapsed_positions, propagation_queue, pc,
                   collapsed_position, nidx, outcome, error, result, pops>>

\* the for loop of the innermost call is over: it returns to its caller
LibReturn ==
    /\ pc = "lib_for"
    /\ top.n = 5
    /\ frames' = SubSeq(frames, 1, Len(frames) - 1)
    /\ pc' = IF Len(frames) = 1 THEN "loop" ELSE "lib_for"
    /\ UNCHANGED <<config, seed_i, reps, build, cells, not_collapsed_positions, min_non_collapsed,
                   propagation_queue, collapsed_position, nidx, outcome, error,
                   result, pops>>

LibNext ==
    \/ CollapseNext
    \/ MinEntropyPanic
    \/ Finish
    \/ LibPropagateCall
    \/ LibSkipOutOfBounds
    \/ LibSkipCollapsed
    \/ LibPanic
    \/ LibUpdateCollapsed
    \/ LibUpdateCached
    \/ LibReturn

\* the crate as lib.rs alone defines it
LibSpec == Init /\ [][LibNext]_vars

(* ------------------------ notions of the claims ----------------------- *)

\* the possibility set of a cell
possible(cell) == {cell[k] : k \in 1..Len(cell)}

\* the in-bounds positions of the board
Positions == {p \in (0..(width - 1)) \X (0..(height - 1)) : TRUE}

\* the in-bounds cardinal neighbours of a position
InBoundsNeighbours(p) ==
    {q \in Positions : \E n \in 1..4 : cardinal_neighbours(p)[n] = q}

\* the unordered pair of tile indices i, j is in the pair set of every constraint
PairAllowed(i, j) ==
    \A c \in 1..Len(constraints) :
        <<i, j>> \in constraints[c] \/ <<j, i>> \in constraints[c]

\* the tile the result places at a position
PlacedAt(p) == (CHOOSE k \in 1..Len(result) : result[k][1] = p)

\* a propagate call of the collapse loop has returned Ok and the loop is at its head
AfterPropagateOk == pc = "loop" /\ pops > 0

\* the cells of entropy > 1
NonCollapsedCells == {k \in 1..Len(cells) : entropy(cells[k]) > 1}

(* --------------------------- collapse_tiles ---------------------------- *)

\* the positions a seed can name: the positions of the board and two outside it
SeedPositions == Positions \cup {<<width, 0>>, <<-1, 1>>}

\* the tile values a seed can name: the tiles of the list and one that is not in it
SeedTiles == {tiles[k] : k \in 1..Len(tiles)} \cup {"Lava"}

\* the seed lists of up to n seeds
SeedLists(n) ==
    UNION {[1..len -> SeedPositions \X SeedTiles] : len \in 0..n}

\* a solver built as in Init, about to run collapse_tiles(seeds)
SeedInit ==
    /\ width \in 1..MaxSmallCells
    /\ height \in 1..MaxSmallCells
    /\ width * height <= MaxSmallCells
    /\ tiles \in TileLists \ {AllTiles}
    /\ constraints \in ConstraintLists(tiles)
    /\ cells = [k \in 1..(width * height) |-> new_cell(Len(tiles))]
    /\ not_collapsed_positions = width * height
    /\ min_non_collapsed = None
    /\ propagation_queue = <<>>
    /\ pc = "seed_collapse"
    /\ collapsed_position = <<0, 0>>
    /\ nidx = 1
    /\ frames = <<>>
    /\ outcome = "running"
    /\ error = <<-1, -1>>
    /\ result = <<>>
    /\ pops = 0
    /\ weights = NoWeights
    /\ seeds \in SeedLists(MaxSeeds)
    /\ seed_i = 1
    /\ build = NoBuild
    /\ reps = NoReps

\* the seed collapse_tiles is at
seed == seeds[seed_i]

\* the place in cells that get_cell_mut reaches for a position, as a set of outcomes:
\* a place of cells, or 0 for a panic. The index is width * (y as usize) + (x as usize)
\* in usize arithmetic: with x and y >= 0 it is the plain sum, and the expect panics
\* beyond the cells; with a negative coordinate the casts are huge, and a sum that
\* comes out >= 0 has overflowed on the way (a panic where overflow is checked, the
\* wrapped sum where it is not), while a sum < 0 stands for an index beyond the cells
get_cell_mut_outcomes(pos) ==
    LET i == width * pos[2] + pos[1]
    IN  IF pos[1] >= 0 /\ pos[2] >= 0
        THEN IF i < Len(cells) THEN {i + 1} ELSE {0}
        ELSE IF i >= 0 /\ i < Len(cells) THEN {0, i + 1} ELSE {0}

\* Board::collapse_position(position, index), then control goes to next_pc
collapse_position(position, index, next_pc) ==
    \E at \in get_cell_mut_outcomes(position) :
        \E sub \in IF at = 0 THEN {"none"} ELSE sub_one_outcomes(not_collapsed_positions) :
            /\ cells' = IF at = 0 THEN cells
                        ELSE [cells EXCEPT ![at] = collapse_cell(@, index)]
            /\ not_collapsed_positions' =
                  IF sub \in {"ok", "wrap"} THEN not_collapsed_positions - 1
                  ELSE not_collapsed_positions
            /\ outcome' = IF at = 0 THEN "PanicNoCellAt"
                          ELSE IF sub = "panic" THEN "PanicOverflow" ELSE outcome
            /\ pc' = IF at = 0 \/ sub = "panic" THEN "done" ELSE next_pc

\* the seed is one collapse_tiles accepts: its position is on the board and its tile
\* is in the tile list
seed_is_valid(sd) ==
    /\ pos_in_bounds(sd[1])
    /\ \E k \in 1..Len(tiles) : tiles[k] = sd[2]

\* the first loop that hands every seed to the board without looking at it: the tile
\* index is looked up as PossibleNeighbours::new does, with an expect
SeedCollapse_unchecked ==
    /\ pc = "seed_collapse"
    /\ seed_i <= Len(seeds)
    /\ IF \E k \in 1..Len(tiles) : tiles[k] = seed[2]
       THEN collapse_position(seed[1], get_index(tiles, seed[2]), "seed_collapse")
       ELSE /\ outcome' = "PanicNoTile"
            /\ pc' = "done"
            /\ UNCHANGED <<cells, not_collapsed_positions>>
    /\ seed_i' = seed_i + 1
    /\ UNCHANGED <<config, frames, reps, build, min_non_collapsed, propagation_queue,
                   collapsed_position, nidx, error, result, pops>>

\* the first loop of collapse_tiles: the seed's tile is translated to its index and
\* the seed's position is collapsed to it
SeedCollapse ==
    /\ pc = "seed_collapse"
    /\ seed_i <= Len(seeds)
    /\ seed_is_valid(seed)
    /\ collapse_position(seed[1], get_index(tiles, seed[2]), "seed_collapse")
    /\ seed_i' = seed_i + 1
    /\ UNCHANGED <<config, frames, reps, build, min_non_collapsed, propagation_queue,
                   collapsed_position, nidx, error, result, pops>>

\* the first loop of collapse_tiles at a seed whose position is out of bounds or whose
\* tile is not in the tile list: collapse_tiles returns an error
SeedError ==
    /\ pc = "seed_collapse"
    /\ seed_i <= Len(seeds)
    /\ ~seed_is_valid(seed)
    /\ outcome' = "ErrSeed"
    /\ error' = seed[1]
    /\ pc' = "done"
    /\ UNCHANGED <<fixed, cells, not_collapsed_positions, min_non_collapsed,
                   propagation_queue, collapsed_position, nidx, result, pops>>

\* every seed is collapsed: collapse_tiles goes on to the propagations
SeedsCollapsed ==
    /\ pc = "seed_collapse"
    /\ seed_i > Len(seeds)
    /\ seed_i' = 1
    /\ pc' = "seed_propagate"
    /\ UNCHANGED <<config, frames, reps, build, cells, not_collapsed_positions,
                   min_non_collapsed, propagation_queue, collapsed_position, nidx,
                   outcome, error, result, pops>>

\* the second loop of collapse_tiles: propagate from the position of the next seed
SeedPropagate ==
    /\ pc = "seed_propagate"
    /\ seed_i <= Len(seeds)
    /\ collapsed_position' = seed[1]
    /\ seed_i' = seed_i + 1
    /\ pc' = "call_propagate"
    /\ UNCHANGED <<config, frames, reps, build, cells, not_collapsed_positions,
                   min_non_collapsed, propagation_queue, nidx, outcome, error,
                   result, pops>>

\* every propagation returned Ok: collapse_tiles returns Ok
SeedsDone ==
    /\ pc = "seed_propagate"
    /\ seed_i > Len(seeds)
    /\ outcome' = "Seeded"
    /\ pc' = "done"
    /\ UNCHANGED <<fixed, cells, not_collapsed_positions, min_non_collapsed,
                   propagation_queue, collapsed_position, nidx, error, result, pops>>

SeedNext ==
    \/ SeedCollapse
    \/ SeedError
    \/ SeedsCollapsed
    \/ SeedPropagate
    \/ SeedsDone
    \/ PropagateCall
    \/ Pop
    \/ PropagateOk
    \/ SkipOutOfBounds
    \/ SkipCollapsed
    \/ Contradiction
    \/ Unchanged
    \/ Reduce

\* collapse_tiles(seeds) on a freshly built solver
SeedSpec == SeedInit /\ [][SeedNext]_vars

(* ----------------------------- construction --------------------------- *)

\* a value as u8
as_u8(n) == n % U8

\* ConstCell::<C>::new(num_tiles): every entry of the array is its own place as u8, the
\* entropy is num_tiles as u8
ConstCell_new(C, num_tiles) ==
    [entropy |-> as_u8(num_tiles), tile_indices |-> [k \in 1..C |-> as_u8(k - 1)]]

\* Cell::<C>::new(num_tiles) of lib.rs: tile_indices[i] = i for i < num_tiles, which is
\* an index out of bounds of the array for num_tiles > C
LibCell_new(C, num_tiles) ==
    IF num_tiles > C THEN Panic
    ELSE Ok([entropy |-> num_tiles,
             tile_indices |-> [k \in 1..C |-> IF k <= num_tiles THEN k - 1 ELSE 0]])

\* with_weights(tile_weights): an array of C zeros, overwritten entry by entry from the
\* vector, which is an index out of bounds of the array for a vector longer than C
with_weights(C, tile_weights) ==
    IF Len(tile_weights) > C THEN Panic
    ELSE Ok(Some([k \in 1..C |-> IF k <= Len(tile_weights) THEN tile_weights[k] ELSE 0]))

\* the tile counts of the constructions explored: up to MaxTiles, and the counts
\* around the range of u8
TileCounts == (0..MaxTiles) \cup {U8 - 1, U8, U8 + 1}

\* the weight vectors handed to with_weights: up to MaxTiles weights from 0..MaxWeight
WeightVectors == UNION {[1..len -> 0..MaxWeight] : len \in 0..MaxTiles}

\* the arguments of a construction: the capacity C and the cell type, the size of the
\* board, the tile list, and the weight vector if with_weights is called
BuildInit ==
    /\ width \in 1..MaxSide
    /\ height \in 1..MaxSide
    /\ \E n \in TileCounts : tiles = [k \in 1..n |-> k]
    /\ \E C \in 1..MaxCapacity, repr \in {"ConstCell", "LibCell"},
          tw \in {NoWeights} \cup {Some(w) : w \in WeightVectors} :
          build = [stage |-> "new", capacity |-> C, repr |-> repr, tile_weights |-> tw]
    /\ reps = NoReps
    /\ constraints = <<>>
    /\ cells = <<>>
    /\ not_collapsed_positions = 0
    /\ min_non_collapsed = None
    /\ propagation_queue = <<>>
    /\ pc = "build"
    /\ collapsed_position = <<0, 0>>
    /\ nidx = 1
    /\ frames = <<>>
    /\ outcome = "running"
    /\ error = <<-1, -1>>
    /\ result = <<>>
    /\ pops = 0
    /\ weights = NoWeights
    /\ seeds = <<>>
    /\ seed_i = 0

\* the cell Board::new builds for every position
built_cell ==
    IF build.repr = "ConstCell" THEN Ok(ConstCell_new(build.capacity, Len(tiles)))
    ELSE LibCell_new(build.capacity, Len(tiles))

\* WaveFunctionCollapse::new: Board::new builds width * height cells
BuildNew ==
    /\ build.stage = "new"
    /\ built_cell.ok
    /\ cells' = [k \in 1..(width * height) |-> built_cell.v]
    /\ not_collapsed_positions' = width * height
    /\ build' = [build EXCEPT !.stage = IF build.tile_weights.some THEN "with_weights"
                                        ELSE "built"]
    /\ outcome' = IF build.tile_weights.some THEN outcome ELSE "Built"
    /\ UNCHANGED <<config, frames, seed_i, reps, min_non_collapsed, propagation_queue, pc,
                   collapsed_position, nidx, error, result, pops>>

\* WaveFunctionCollapse::new with the cell of lib.rs and more tiles than C: the
\* construction of the first cell panics
BuildNewPanic ==
    /\ build.stage = "new"
    /\ ~built_cell.ok
    /\ build' = [build EXCEPT !.stage = "panic"]
    /\ outcome' = "PanicIndex"
    /\ UNCHANGED <<config, frames, seed_i, reps, cells, not_collapsed_positions,
                   min_non_collapsed, propagation_queue, pc, collapsed_position, nidx,
                   error, result, pops>>

\* with_weights with a vector of at most C weights
BuildWithWeights ==
    /\ build.stage = "with_weights"
    /\ with_weights(build.capacity, build.tile_weights.w).ok
    /\ weights' = with_weights(build.capacity, build.tile_weights.w).v
    /\ build' = [build EXCEPT !.stage = "built"]
    /\ outcome' = "Built"
    /\ UNCHANGED <<width, height, tiles, constraints, seeds, frames, seed_i, reps, cells,
                   not_collapsed_positions, min_non_collapsed, propagation_queue, pc,
                   collapsed_position, nidx, error, result, pops>>

\* with_weights with a vector of more than C weights: the write past the array panics
BuildWithWeightsPanic ==
    /\ build.stage = "with_weights"
    /\ ~with_weights(build.capacity, build.tile_weights.w).ok
    /\ build' = [build EXCEPT !.stage = "panic"]
    /\ outcome' = "PanicIndex"
    /\ UNCHANGED <<config, frames, seed_i, reps, cells, not_collapsed_positions,
                   min_non_collapsed, propagation_queue, pc, collapsed_position, nidx,
                   error, result, pops>>

BuildNext ==
    \/ BuildNew
    \/ BuildNewPanic
    \/ BuildWithWeights
    \/ BuildWithWeightsPanic

\* the construction of a solver: new(..) and, if called, with_weights(..)
BuildSpec == BuildInit /\ [][BuildNext]_vars

(* ------------------------------- claims ------------------------------- *)

\* C1: when collapse() returns successfully, the tiles placed at any two horizontally
\* or vertically adjacent positions form a pair of the allowed-pair set of every
\* configured PossibleNeighbours constraint.
C1_AdjacentTilesAllowed ==
    outcome = "Ok" =>
        \A a \in 1..Len(result) : \A b \in 1..Len(result) :
            result[b][1] \in InBoundsNeighbours(result[a][1]) =>
                PairAllowed(get_index(tiles, result[a][2]), get_index(tiles, result[b][2]))

\* C1 witness: a successful run on a board with adjacent cells under a constraint that
\* forbids some pair, with two different tiles placed
C1_Witness ==
    /\ outcome = "Ok"
    /\ width * height >= 3
    /\ Len(constraints) = 1
    /\ \E i \in 0..(Len(tiles) - 1), j \in 0..(Len(tiles) - 1) : ~PairAllowed(i, j)
    /\ \E a \in 1..Len(result) : \E b \in 1..Len(result) : result[a][2] # result[b][2]

\* C2: when collapse() returns successfully every cell has entropy 1 and the result
\* holds exactly one entry per in-bounds position, width * height in all, each with
\* the tile stored in the tile list at the single remaining index of that cell.
C2_ResultIsTheCollapsedBoard ==
    outcome = "Ok" =>
        /\ \A k \in 1..Len(cells) : entropy(cells[k]) = 1
        /\ Len(result) = width * height
        /\ \A p \in Positions :
              /\ Cardinality({k \in 1..Len(result) : result[k][1] = p}) = 1
              /\ result[PlacedAt(p)][2] = tiles[get_cell(p)[1] + 1]
        /\ \A k \in 1..Len(result) : result[k][1] \in Positions

\* C2 witness: a successful run on a board of several cells with several tiles
C2_Witness ==
    /\ outcome = "Ok"
    /\ width >= 2
    /\ height >= 2
    /\ Len(tiles) >= 2
    /\ \E k \in 1..Len(result) : result[k][2] # result[1][2]

C4_ContradictionIsAnErrorValue ==
    /\ outcome # "PanicNoIndices"
    /\ outcome = "Err" => (pc = "done" /\ error \in Positions)

\* C5: propagate returns CellHasZeroEntropy(p) only when the cell update of the cell at
\* p is empty, and p is an in-bounds, non-collapsed cardinal neighbour of the position
\* just popped from the worklist, never the popped position itself.
C5_ErrorNamesTheEmptyCell ==
    outcome = "Err" =>
        /\ error \in InBoundsNeighbours(collapsed_position)
        /\ error # collapsed_position
        /\ ~is_collapsed(get_cell(error))
        /\ new_indices_at(error) = <<>>

\* C5 witness: an error reported while another neighbour of the popped position is
\* not collapsed either
C5_Witness ==
    /\ outcome = "Err"
    /\ \E q \in InBoundsNeighbours(collapsed_position) :
          q # error /\ ~is_collapsed(get_cell(q))

\* C7: after construction, after collapse-at-position and after a returned propagate,
\* not_collapsed_positions is the number of cells of entropy > 1, and collapsed() is
\* true iff every cell has entropy 1.
C7_BookkeepingAgrees ==
    pc \in {"loop", "call_propagate", "done"} =>
        /\ not_collapsed_positions = Cardinality(NonCollapsedCells)
        /\ collapsed <=> \A k \in 1..Len(cells) : entropy(cells[k]) = 1

\* C7 restricted to tile lists of two or more tiles
C7_BookkeepingAgreesFromTwoTiles ==
    Len(tiles) >= 2 => C7_BookkeepingAgrees

\* C8: in every reachable state every cell has entropy >= 1, and the step in which
\* propagate returns CellHasZeroEntropy writes no cell: the offending cell keeps the
\* possibility set it had.
C8_NoCellIsEverEmpty ==
    /\ [](\A k \in 1..Len(cells) : entropy(cells[k]) >= 1)
    /\ [][outcome' = "Err" =>
              (cells' = cells /\ entropy(cells'[cell_index(error')]) >= 1)]_vars

\* C8 witness: propagate has returned the error and the offending cell still holds
\* several indices
C8_Witness ==
    /\ outcome = "Err"
    /\ entropy(get_cell(error)) >= 2
    /\ new_indices_at(error) = <<>>

\* C9: after a propagate call of the collapse loop returned Ok, for every position p,
\* every in-bounds cardinal neighbour q of p and every index i possible at p, some
\* index j possible at q is compatible with i.
C9_ArcConsistentAfterPropagate ==
    AfterPropagateOk =>
        \A p \in Positions : \A q \in InBoundsNeighbours(p) :
            \A i \in possible(get_cell(p)) :
                \E j \in possible(get_cell(q)) : PairAllowed(i, j)

\* C9 witness: propagate returned Ok after reducing a cell that is still not
\* collapsed, next to a collapsed cell, under a constraint that forbids some pair
C9_Witness ==
    /\ AfterPropagateOk
    /\ Len(constraints) = 1
    /\ \E p \in Positions : \E q \in InBoundsNeighbours(p) :
          /\ is_collapsed(get_cell(p))
          /\ entropy(get_cell(q)) > 1
          /\ entropy(get_cell(q)) < Len(tiles)

\* C10: every step of propagate leaves every cell with a subset of the possibility
\* set it had: no index is ever added to a cell during propagation.
C10_PropagationOnlyShrinks ==
    [][(pc = "while" \/ pc = "for") =>
          (\A k \in 1..Len(cells) : possible(cells'[k]) \subseteq possible(cells[k]))]_vars

\* C10 witness: propagate has removed an index from a cell and left it not collapsed
C10_Witness ==
    /\ pc \in {"while", "for"}
    /\ \E k \in 1..Len(cells) : entropy(cells[k]) > 1 /\ entropy(cells[k]) < Len(tiles)

\* the loop of collapse() is at its head and is about to select a cell and collapse it
AboutToSelect ==
    /\ pc = "loop"
    /\ ~collapsed
    /\ min_non_collapsed # None \/ min_entropy_index # 0

\* C11: in every iteration of the collapse loop the selected position has the smallest
\* entropy among the cells of entropy > 1 of the board, also when the selection is the
\* cached min_non_collapsed of the previous propagation.
C11_SelectedHasLeastEntropy ==
    AboutToSelect =>
        \A k \in NonCollapsedCells : entropy(get_cell(selected.pos)) <= entropy(cells[k])

\* C11 holds for the selections that come from the scan of the board
C11_ScanSelectsLeastEntropy ==
    (AboutToSelect /\ min_non_collapsed = None) =>
        \A k \in NonCollapsedCells : entropy(get_cell(selected.pos)) <= entropy(cells[k])

\* C12: every call of collapse_position made by the loop of collapse() meets its
\* preconditions: the selected position is in bounds, the cell of the board at that
\* position is not collapsed at that moment, and every index the choice can return is
\* an index of the current cell of the board at that position.
C12_CollapsePreconditionsHold ==
    AboutToSelect =>
        /\ pos_in_bounds(selected.pos)
        /\ ~is_collapsed(get_cell(selected.pos))
        /\ possible(selected.cell) \subseteq possible(get_cell(selected.pos))

\* C12 witness: the loop is about to collapse the cached cell of a propagation that
\* worked through several positions and removed indices
C12_Witness ==
    /\ AboutToSelect
    /\ min_non_collapsed # None
    /\ pops > 1
    /\ entropy(min_non_collapsed.cell) < Len(tiles)
    /\ \E k \in NonCollapsedCells : iter_to(width, height)[k] # min_non_collapsed.pos

\* the seed list names two different positions of the board that are cardinal
\* neighbours, with tiles of the list whose pair the constraint does not allow
TwoAdjacentDisallowedSeeds ==
    /\ Len(seeds) = 2
    /\ seed_is_valid(seeds[1]) /\ seed_is_valid(seeds[2])
    /\ seeds[2][1] \in InBoundsNeighbours(seeds[1][1])
    /\ Len(constraints) = 1
    /\ ~PairAllowed(get_index(tiles, seeds[1][2]), get_index(tiles, seeds[2][2]))

\* C13: pre-seeding two adjacent positions with tiles whose unordered pair is not
\* allowed makes collapse_tiles fail with CellHasZeroEntropy at one of the two seeded
\* positions (2x1 board, tiles [A, B], pairs {(A,A),(B,B)}, seeds (0,0)=A, (1,0)=B).
C13_DisallowedSeedsFail ==
    (TwoAdjacentDisallowedSeeds /\ pc = "done") =>
        /\ outcome = "Err"
        /\ error \in {seeds[1][1], seeds[2][1]}

\* the seeds of collapse_tiles that are on the board with a tile of the list
ValidSeeds == {k \in 1..Len(seeds) : seed_is_valid(seeds[k])}

\* C14: after collapse_tiles(seeds) returned successfully, for every seed (p, t) with p
\* in bounds and t in the tile list, also when seeds name a position more than once,
\* the cell at p is collapsed to the index of t and not_collapsed_positions is the
\* number of cells of entropy > 1.
C14_SeedsCollapsedAndCounted ==
    outcome = "Seeded" =>
        /\ \A k \in ValidSeeds : get_cell(seeds[k][1]) = <<get_index(tiles, seeds[k][2])>>
        /\ not_collapsed_positions = Cardinality(NonCollapsedCells)

\* C14 holds for the seed lists that name every position once, on boards of two or
\* more tiles
C14_DistinctSeedsCollapsedAndCounted ==
    (/\ outcome = "Seeded"
     /\ Len(tiles) >= 2
     /\ \A j \in 1..Len(seeds) : \A k \in 1..Len(seeds) :
            seeds[j][1] = seeds[k][1] => j = k) =>
        /\ \A k \in ValidSeeds : get_cell(seeds[k][1]) = <<get_index(tiles, seeds[k][2])>>
        /\ not_collapsed_positions = Cardinality(NonCollapsedCells)

C16_TooManyTilesIsAnError ==
    (Len(tiles) > build.capacity /\ build.stage # "new") =>
        /\ outcome = "ErrTooManyTiles"
        /\ cells = <<>>

\* with at most C tiles the construction yields cells whose entropy is the tile count
C16_FittingTilesBuildFullCells ==
    (Len(tiles) <= build.capacity /\ build.stage \in {"with_weights", "built"}) =>
        \A k \in 1..Len(cells) : cells[k].entropy = Len(tiles)

\* C17: a weight vector whose length differs from the tile count is rejected at build
\* time with an error: a shorter vector is not padded with zero weights and a longer
\* one does not crash.
C17_WrongWeightCountIsAnError ==
    (/\ build.stage \in {"built", "panic"}
     /\ cells # <<>>
     /\ build.tile_weights.some
     /\ Len(build.tile_weights.w) # Len(tiles)) =>
        /\ outcome = "ErrInvalidWeights"
        /\ ~weights.some

\* with as many weights as tiles, and no more tiles than C, with_weights stores the
\* weights of the tiles
C17_RightWeightCountIsStored ==
    (/\ build.stage = "built"
     /\ build.tile_weights.some
     /\ Len(build.tile_weights.w) = Len(tiles)
     /\ Len(tiles) <= build.capacity) =>
        /\ weights.some
        /\ \A k \in 1..Len(tiles) : weights.w[k] = build.tile_weights.w[k]

\* the loop is about to choose for a cell all of whose gathered weights are zero
AllGatheredWeightsZero ==
    /\ AboutToSelect
    /\ weights.some
    /\ \A k \in 1..Len(selected.cell) : possible_weights(selected.cell)[k] = 0

\* C18: when every weight gathered for the possible tiles of the cell being collapsed
\* is zero, the weighted choice fails with a configuration error that collapse()
\* returns: it does not panic and it does not choose.
C18_ZeroWeightsAreAnError ==
    [][AllGatheredWeightsZero =>
          (outcome' = "ErrInvalidWeights" /\ pc' = "done" /\ cells' = cells)]_vars

\* when some gathered weight is not zero, the choice is an index of the cell whose
\* weight is not zero
C18_ChoiceHasWeight ==
    [][(AboutToSelect /\ weights.some /\ ~AllGatheredWeightsZero) =>
          (/\ pc' = "call_propagate"
           /\ cells'[cell_index(selected.pos)][1] \in possible(selected.cell)
           /\ weights.w[cells'[cell_index(selected.pos)][1] + 1] > 0)]_vars

\* the weights choose_next_index of lib.rs gathers are the weights of the indices of
\* the board's cell, and the index chosen has a weight that is not zero
ChoiceGathersByTileIndex ==
    /\ [](AboutToSelect /\ weights.some =>
            /\ selected.cell = get_cell(selected.pos)
            /\ \A k \in 1..Len(selected.cell) :
                  possible_weights(selected.cell)[k] = weights.w[selected.cell[k] + 1])
    /\ [][(AboutToSelect /\ weights.some /\ pc' = "call_propagate") =>
             weights.w[cells'[cell_index(selected.pos)][1] + 1] > 0]_vars

C20_NoConstraintAlwaysSucceeds ==
    Len(constraints) = 0 =>
        /\ outcome \in {"running", "Ok"}
        /\ Len(propagation_queue) <= 1
        /\ (pc = "done" => outcome = "Ok")

\* with an empty constraint list and two or more tiles: collapse() succeeds, the queue
\* holds the starting position at most, and the cells still open are untouched
C20_NoConstraintFromTwoTiles ==
    (Len(constraints) = 0 /\ Len(tiles) >= 2) =>
        /\ outcome \in {"running", "Ok"}
        /\ Len(propagation_queue) <= 1
        /\ (pc = "done" => outcome = "Ok")
        /\ \A k \in 1..Len(cells) : is_collapsed(cells[k]) \/ cells[k] = new_cell(Len(tiles))

\* with an empty constraint list propagation never changes a cell: every cell changes
\* in a step of the loop of collapse() only
C20_NoConstraintOnlyChoicesCollapse ==
    [][(Len(constraints) = 0 /\ cells' # cells) =>
          (pc = "loop" /\ pc' = "call_propagate")]_vars

\* the constraint list is one PossibleNeighbours built from an empty pair set, on a
\* board of two or more cells
EmptyAllowedSet == constraints = <<{}>> /\ width * height >= 2

\* C21: with a PossibleNeighbours built from an empty allowed-pair set, on any board of
\* two or more cells, the first propagation from the first collapsed position returns
\* CellHasZeroEntropy: no propagate call returns Ok, no second position is collapsed by
\* the loop, and the run ends with the error.
C21_EmptyAllowedSetFailsAtOnce ==
    EmptyAllowedSet =>
        /\ ~AfterPropagateOk
        /\ outcome \in {"running", "Err"}
        /\ (pc = "done" => outcome = "Err" /\ pops = 1)

\* C21 for tile lists of two or more tiles, where one cell at most is ever collapsed
C21_EmptyAllowedSetFromTwoTiles ==
    (EmptyAllowedSet /\ Len(tiles) >= 2) =>
        /\ ~AfterPropagateOk
        /\ outcome \in {"running", "Err"}
        /\ (pc = "done" => outcome = "Err" /\ pops = 1)
        /\ Cardinality({k \in 1..Len(cells) : is_collapsed(cells[k])}) <= 1

(* ------------------ the cell representations (cell.rs) ----------------- *)

\* the capacity C of the ConstCell driven, and the longest index list handed to
\* set_indices
CellCapacity == 2
MaxIndices == 3

\* u8::MAX, the placeholder that ends an index list
U8_MAX == U8 - 1

\* the three implementations of the trait Cell
Representations == {"ConstCell", "BitCell", "DynCell"}

\* what the for loops of ConstCell::set_indices and BitCell::set_indices get to see: the
\* items before the first placeholder
until_placeholder(indices) ==
    LET stops == {k \in 1..Len(indices) : indices[k] = U8_MAX}
    IN  IF stops = {} THEN indices
        ELSE SubSeq(indices, 1, (CHOOSE k \in stops : \A j \in stops : k <= j) - 1)

\* ConstCell::collapse(index)
ConstCell_collapse(cell, index) ==
    [entropy |-> 1, tile_indices |-> [cell.tile_indices EXCEPT ![1] = index]]

\* ConstCell::set_indices(indices): the i-th item is written to tile_indices[i], an index
\* out of bounds for the item after the C-th, and every item written adds one to the
\* entropy; entries past the items keep what they held
ConstCell_set_indices(cell, indices) ==
    LET seen == until_placeholder(indices)
    IN  IF Len(seen) > Len(cell.tile_indices) THEN Panic
        ELSE Ok([entropy |-> as_u8(Len(seen)),
                 tile_indices |-> [k \in 1..Len(cell.tile_indices) |->
                                     IF k <= Len(seen) THEN seen[k]
                                     ELSE cell.tile_indices[k]]])

\* BitCell::new(num_tiles): the bits 0..num_tiles-1 are set, the entropy is num_tiles as u8
BitCell_new(num_tiles) ==
    [entropy |-> as_u8(num_tiles), tile_indices |-> {as_u8(i) : i \in 0..(num_tiles - 1)}]

\* BitCell::collapse(index): a fresh bit array with the one bit set
BitCell_collapse(index) ==
    [entropy |-> 1, tile_indices |-> {index}]

\* BitCell::set_indices(indices): the bit of every item is set, and every item adds one
\* to the entropy, whether its bit was set already or not
BitCell_set_indices(indices) ==
    LET seen == until_placeholder(indices)
    IN  [entropy |-> as_u8(Len(seen)),
         tile_indices |-> {seen[k] : k \in 1..Len(seen)}]

\* DynCell::new(num_tiles): the vector of i as u8 for i < num_tiles
DynCell_new(num_tiles) ==
    [indices |-> [k \in 1..num_tiles |-> as_u8(k - 1)]]

\* DynCell::collapse(index): clear and push
DynCell_collapse(index) ==
    [indices |-> <<index>>]

\* DynCell::set_indices(indices): clear, then push every item, the placeholder too
DynCell_set_indices(indices) ==
    [indices |-> indices]

\* DynCell::entropy(): the length of the vector as u8
DynCell_entropy(cell) ==
    as_u8(Len(cell.indices))

\* BitArray::ones(): the set bits, lowest first
ones(array) ==
    [k \in 1..Cardinality(array) |->
        CHOOSE b \in array : Cardinality({c \in array : c < b}) = k - 1]

\* PossibleIndices::from_array and PossibleIndices::from_bitarray
from_array(indices, e) == [kind |-> "Array", indices |-> indices, entropy |-> e]
from_bitarray(array, e) == [kind |-> "BitArray", array |-> array, entropy |-> e]

\* PossibleIndices::get(index): indices[index] of the slice, or the index-th set bit,
\* which is a panic out of bounds and for a missing bit
PossibleIndices_get(possible_indices, index) ==
    IF possible_indices.kind = "Array"
    THEN IF index < Len(possible_indices.indices)
         THEN Ok(possible_indices.indices[index + 1]) ELSE Panic
    ELSE IF index < Cardinality(possible_indices.array)
         THEN Ok(ones(possible_indices.array)[index + 1]) ELSE Panic

\* PossibleIndices::iter() collected: get(counter) for counter = 0 .. entropy-1
PossibleIndices_iter(possible_indices) ==
    IF \E counter \in 0..(possible_indices.entropy - 1) :
          ~PossibleIndices_get(possible_indices, counter).ok
    THEN Panic
    ELSE Ok([k \in 1..possible_indices.entropy |->
                PossibleIndices_get(possible_indices, k - 1).v])

\* Cell::new of a representation
Cell_new(repr, num_tiles) ==
    CASE repr = "ConstCell" -> ConstCell_new(CellCapacity, num_tiles)
      [] repr = "BitCell" -> BitCell_new(num_tiles)
      [] repr = "DynCell" -> DynCell_new(num_tiles)

\* Cell::entropy of a representation
Cell_entropy(repr, cell) ==
    IF repr = "DynCell" THEN DynCell_entropy(cell) ELSE cell.entropy

\* Cell::is_collapsed of a representation
Cell_is_collapsed(repr, cell) ==
    Cell_entropy(repr, cell) = 1

\* Cell::get_possible_indices of a representation
Cell_get_possible_indices(repr, cell) ==
    CASE repr = "ConstCell" -> from_array(cell.tile_indices, cell.entropy)
      [] repr = "BitCell" -> from_bitarray(cell.tile_indices, cell.entropy)
      [] repr = "DynCell" -> from_array(cell.indices, DynCell_entropy(cell))

\* Cell::get_collapsed_index of a representation: the first entry, or the lowest bit,
\* which is a panic when there is none
Cell_get_collapsed_index(repr, cell) ==
    CASE repr = "ConstCell" -> Ok(cell.tile_indices[1])
      [] repr = "BitCell" ->
            IF cell.tile_indices = {} THEN Panic ELSE Ok(ones(cell.tile_indices)[1])
      [] repr = "DynCell" ->
            IF cell.indices = <<>> THEN Panic ELSE Ok(cell.indices[1])

\* Cell::collapse of a representation
Cell_collapse(repr, cell, index) ==
    CASE repr = "ConstCell" -> Ok(ConstCell_collapse(cell, index))
      [] repr = "BitCell" -> Ok(BitCell_collapse(index))
      [] repr = "DynCell" -> Ok(DynCell_collapse(index))

\* Cell::set_indices of a representation
Cell_set_indices(repr, cell, indices) ==
    CASE repr = "ConstCell" -> ConstCell_set_indices(cell, indices)
      [] repr = "BitCell" -> Ok(BitCell_set_indices(indices))
      [] repr = "DynCell" -> Ok(DynCell_set_indices(indices))

\* the tile indices of the calls, and the index lists handed to set_indices: in any
\* order, with repeats, with the placeholder
CellIndices == 0..(CellCapacity - 1)
IndexLists == UNION {[1..len -> CellIndices \cup {U8_MAX}] : len \in 0..MaxIndices}

\* the tile counts the cells are made with: those every representation has room for,
\* and for the vector cell the counts around the range of u8
CellTileCounts == (0..CellCapacity) \cup {U8 - 1, U8, U8 + 1}

\* an index list as the board hands it over: strictly ascending, without placeholder,
\* no longer than the capacity
is_ascending(indices) ==
    /\ Len(indices) <= CellCapacity
    /\ \A k \in 1..Len(indices) : indices[k] # U8_MAX
    /\ \A k \in 1..(Len(indices) - 1) : indices[k] < indices[k + 1]

\* new(n) in every representation with room for n tiles; fresh says no call has been
\* made since, ascending that every list handed over so far was ascending
CellInit ==
    /\ \E n \in CellTileCounts :
          LET made == IF n <= CellCapacity THEN Representations ELSE {"DynCell"}
          IN  reps = [made |-> made, n |-> n, fresh |-> TRUE, ascending |-> TRUE,
                      cell |-> [repr \in made |-> Ok(Cell_new(repr, n))]]
    /\ width = 1
    /\ height = 1
    /\ tiles = <<>>
    /\ constraints = <<>>
    /\ cells = <<>>
    /\ not_collapsed_positions = 0
    /\ min_non_collapsed = None
    /\ propagation_queue = <<>>
    /\ pc = "cells"
    /\ collapsed_position = <<0, 0>>
    /\ nidx = 0
    /\ frames = <<>>
    /\ outcome = "running"
    /\ error = <<0, 0>>
    /\ result = <<>>
    /\ pops = 0
    /\ weights = NoWeights
    /\ seeds = <<>>
    /\ seed_i = 0
    /\ build = NoBuild

\* collapse(index) on every representation that has not panicked
CellCollapse ==
    /\ pc = "cells"
    /\ \E index \in CellIndices :
          reps' = [reps EXCEPT
                      !.fresh = FALSE,
                      !.cell = [repr \in reps.made |->
                                  IF reps.cell[repr].ok
                                  THEN Cell_collapse(repr, reps.cell[repr].v, index)
                                  ELSE Panic]]
    /\ UNCHANGED <<config, frames, seed_i, build, cells, not_collapsed_positions,
                   min_non_collapsed, propagation_queue, pc, collapsed_position, nidx,
                   outcome, error, result, pops>>

\* set_indices(indices) on every representation that has not panicked
CellSetIndices ==
    /\ pc = "cells"
    /\ \E indices \in IndexLists :
          reps' = [reps EXCEPT
                      !.fresh = FALSE,
                      !.ascending = @ /\ is_ascending(indices),
                      !.cell = [repr \in reps.made |->
                                  IF reps.cell[repr].ok
                                  THEN Cell_set_indices(repr, reps.cell[repr].v, indices)
                                  ELSE Panic]]
    /\ UNCHANGED <<config, frames, seed_i, build, cells, not_collapsed_positions,
                   min_non_collapsed, propagation_queue, pc, collapsed_position, nidx,
                   outcome, error, result, pops>>

CellNext == CellCollapse \/ CellSetIndices

CellSpec == CellInit /\ [][CellNext]_vars

(* --------------------- claims on the cell representations ------------- *)

\* what a caller can observe of a cell through the trait: the entropy, is_collapsed,
\* the collapsed index when collapsed, and the collected iteration
NotCollapsed == [ok |-> TRUE, v |-> -1]

observed(repr) ==
    LET slot == reps.cell[repr]
    IN  IF ~slot.ok THEN Panic
        ELSE [ok |-> TRUE,
              entropy |-> Cell_entropy(repr, slot.v),
              is_collapsed |-> Cell_is_collapsed(repr, slot.v),
              collapsed_index |-> IF Cell_is_collapsed(repr, slot.v)
                                  THEN Cell_get_collapsed_index(repr, slot.v)
                                  ELSE NotCollapsed,
              sequence |-> PossibleIndices_iter(Cell_get_possible_indices(repr, slot.v))]

\* all three representations were made by new(n), n within the capacity of each
AllMade == reps.made = Representations

\* the tile indices a cell holds as possible: the used entries of the array, the set bits,
\* the entries of the vector
possibility_set(repr, cell) ==
    CASE repr = "ConstCell" ->
            {cell.tile_indices[k] : k \in {j \in 1..Len(cell.tile_indices) : j <= cell.entropy}}
      [] repr = "BitCell" -> cell.tile_indices
      [] repr = "DynCell" -> {cell.indices[k] : k \in 1..Len(cell.indices)}

\* C22: the three cell representations, started from new(n) with n within the capacity
\* of each and driven by the same collapse(i) and set_indices(seq) calls, report the same
\* entropy, the same is_collapsed, the same collapsed index when collapsed and the same
\* iteration sequence after every step.
C22_RepresentationsAgree ==
    AllMade => \A a, b \in Representations : observed(a) = observed(b)

\* C22 on the lists the board hands over: when every list was strictly ascending, free
\* of the placeholder and within the capacity, the representations agree
C22_RepresentationsAgreeOnAscending ==
    (AllMade /\ reps.ascending) =>
        /\ \A a, b \in Representations : observed(a) = observed(b)
        /\ \A a \in Representations : observed(a).ok /\ observed(a).sequence.ok

\* C23: for each representation, after any new, collapse and set_indices calls, with
\* repeats and any order in the lists, entropy() is the number of distinct tile indices
\* of the possibility set and is_collapsed() holds iff that number is 1.
C23_EntropyCountsDistinctIndices ==
    AllMade =>
        \A repr \in Representations :
            reps.cell[repr].ok =>
                LET cell == reps.cell[repr].v
                    distinct == Cardinality(possibility_set(repr, cell))
                IN  /\ Cell_entropy(repr, cell) = distinct
                    /\ Cell_is_collapsed(repr, cell) <=> (distinct = 1)

\* C23 on ascending lists: there the entropy is the number of distinct indices
C23_EntropyCountsOnAscending ==
    (AllMade /\ reps.ascending) =>
        \A repr \in Representations :
            /\ reps.cell[repr].ok
            /\ Cell_entropy(repr, reps.cell[repr].v)
                  = Cardinality(possibility_set(repr, reps.cell[repr].v))

\* C24: for each representation the iteration yields the members of the possibility
\* set, each once, in ascending order, in whatever order set_indices received them.
C24_IterationAscendingOnce ==
    AllMade =>
        \A repr \in Representations :
            reps.cell[repr].ok =>
                PossibleIndices_iter(Cell_get_possible_indices(repr, reps.cell[repr].v))
                    = Ok(ones(possibility_set(repr, reps.cell[repr].v)))

\* C24 on ascending lists: there the iteration is ascending and without repeats
C24_IterationAscendingOnAscending ==
    (AllMade /\ reps.ascending) =>
        \A repr \in Representations :
            /\ reps.cell[repr].ok
            /\ PossibleIndices_iter(Cell_get_possible_indices(repr, reps.cell[repr].v))
                  = Ok(ones(possibility_set(repr, reps.cell[repr].v)))

\* a vector cell as new(n) left it
FreshDynCell == "DynCell" \in reps.made /\ reps.fresh

\* C25: for every tile count n, 256 and more included, DynCell::new(n) has entropy n and
\* its possible indices are the n distinct values 0..n-1.
C25_DynCellAnyTileCount ==
    FreshDynCell =>
        LET cell == reps.cell["DynCell"].v
        IN  /\ DynCell_entropy(cell) = reps.n
            /\ PossibleIndices_iter(Cell_get_possible_indices("DynCell", cell))
                  = Ok([k \in 1..reps.n |-> k - 1])

\* C25 below 256 tiles: there the entropy is n and the indices are 0..n-1
C25_DynCellBelowU8 ==
    (FreshDynCell /\ reps.n < U8) =>
        LET cell == reps.cell["DynCell"].v
        IN  /\ DynCell_entropy(cell) = reps.n
            /\ PossibleIndices_iter(Cell_get_possible_indices("DynCell", cell))
                  = Ok([k \in 1..reps.n |-> k - 1])

(* --------------------- claims on the worklist of propagate ------------ *)

\* propagate has returned Err(CellHasZeroEntropy)
AfterPropagateErr == outcome = "Err"

\* C26: every return from propagate, with Ok as well as with CellHasZeroEntropy, leaves
\* the propagation worklist of the board empty.
C26_WorklistEmptyOnEveryReturn ==
    (AfterPropagateOk \/ AfterPropagateErr) => propagation_queue = <<>>

\* C26 for the Ok return alone: there the worklist is empty
C26_WorklistEmptyOnOk ==
    AfterPropagateOk => propagation_queue = <<>>

AtUpdateCell ==
    pc = "for" /\ pos_in_bounds(neighbour) /\ ~is_collapsed(get_cell(neighbour))

\* the pairs of tiles constraint c was configured with
configured(c) ==
    {<<tiles[pr[1] + 1], tiles[pr[2] + 1]>> : pr \in constraints[c]}

\* a pair list with every pair turned round
turned(pairs) == {<<pr[2], pr[1]>> : pr \in pairs}

\* the neighbour snapshots the predicate is given: the one of the board, the one of a
\* cell without neighbours, and the one of the board with a neighbour left without tiles
SnapshotsAt(pos) ==
    LET snapshot == neighbour_snapshot(pos)
    IN  {snapshot, <<>>} \cup {[snapshot EXCEPT ![k] = <<>>] : k \in 1..Len(snapshot)}

\* every snapshot holds a tile index u with (t, u) or (u, t) among the pairs
EverySnapshotHasPartner(pairs, t, snapshots) ==
    \A k \in 1..Len(snapshots) :
        \E u \in possible(snapshots[k]) :
            \/ <<tiles[t + 1], tiles[u + 1]>> \in pairs
            \/ <<tiles[u + 1], tiles[t + 1]>> \in pairs

\* C29: PossibleNeighbours accepts candidate t iff every neighbour snapshot contains a
\* tile index u with (t, u) or (u, t) among the configured pairs; configuring (b, a) has
\* the effect of configuring (a, b); every candidate is accepted when there are no
\* neighbours, and none when some neighbour has no possible tile.
C29_AcceptsIffEveryNeighbourHasPartner ==
    AtUpdateCell =>
        \A c \in 1..Len(constraints), t \in 0..(Len(tiles) - 1),
           snapshots \in SnapshotsAt(neighbour) :
            LET pairs == configured(c)
                valid == PossibleNeighbours_valid(
                             PossibleNeighbours_new(pairs, tiles), t, snapshots)
            IN  /\ valid <=> EverySnapshotHasPartner(pairs, t, snapshots)
                /\ valid <=> PossibleNeighbours_valid(
                                 PossibleNeighbours_new(turned(pairs), tiles), t, snapshots)
                /\ snapshots = <<>> => valid
                /\ (\E k \in 1..Len(snapshots) : snapshots[k] = <<>>) => ~valid

\* C29 witness: update_cell is called under a pair list that is not symmetric as
\* written, one candidate is accepted through a pair written the other way round and
\* another candidate is rejected
C29_Witness ==
    /\ AtUpdateCell
    /\ Len(constraints) = 1
    /\ \E t, r \in possible(get_cell(neighbour)) :
          LET snapshots == neighbour_snapshot(neighbour)
          IN  /\ PossibleNeighbours_valid(constraints[1], t, snapshots)
              /\ ~PossibleNeighbours_valid(constraints[1], r, snapshots)
              /\ \E k \in 1..Len(snapshots) :
                    \A u \in possible(snapshots[k]) : <<t, u>> \notin constraints[1]

\* the constraint lists update_cell is given: the list of the run, and the list of the
\* run with one more PossibleNeighbours of a single pair
ConstraintListsAt ==
    {constraints} \cup
    {Append(constraints, {<<a, b>>}) : a \in 0..(Len(tiles) - 1), b \in 0..(Len(tiles) - 1)}

\* every constraint of the list accepts candidate t given the snapshots
EveryConstraintAccepts(cs, t, snapshots) ==
    \A c \in 1..Len(cs) : PossibleNeighbours_valid(cs[c], t, snapshots)

\* C30: update_cell returns exactly the candidates of the cell's possibility set S_p that
\* every configured constraint accepts given the neighbour snapshots, in the order they
\* had in S_p, each once, as many as were retained, and no index that is not in S_p.
C30_UpdateKeepsAcceptedInOrder ==
    AtUpdateCell =>
        \A cs \in ConstraintListsAt :
            LET S_p == get_cell(neighbour)
                snapshots == neighbour_snapshot(neighbour)
                new_indices == update_cell(cs, S_p, snapshots)
                retained == {t \in possible(S_p) : EveryConstraintAccepts(cs, t, snapshots)}
            IN  /\ possible(new_indices) = retained
                /\ Len(new_indices) = Cardinality(retained)
                /\ possible(new_indices) \subseteq possible(S_p)
                /\ \A j, k \in 1..Len(new_indices) :
                      j < k => \E a, b \in 1..Len(S_p) :
                                  a < b /\ S_p[a] = new_indices[j] /\ S_p[b] = new_indices[k]

\* C30 witness: update_cell is called with two constraints, a candidate both accept and
\* a candidate the first accepts and the second rejects
C30_Witness ==
    /\ AtUpdateCell
    /\ \E cs \in ConstraintListsAt :
          /\ Len(cs) = 2
          /\ \E t, r \in possible(get_cell(neighbour)) :
                LET snapshots == neighbour_snapshot(neighbour)
                IN  /\ EveryConstraintAccepts(cs, t, snapshots)
                    /\ PossibleNeighbours_valid(cs[1], r, snapshots)
                    /\ ~PossibleNeighbours_valid(cs[2], r, snapshots)

\* a constraint list with its constraints added in the opposite order
added_in_reverse(cs) == [c \in 1..Len(cs) |-> cs[Len(cs) + 1 - c]]

AtUpdateThatGoesOn == AtUpdateCell /\ new_indices_at(neighbour) # <<>>

\* C32: during propagation a neighbour r is pushed onto the worklist iff its updated
\* possibility set has strictly fewer elements than before, and in exactly that case its
\* set is replaced; when the updated set has the same size, the cell at r, the worklist,
\* the non-collapsed bookkeeping and the cached min-entropy candidate are unchanged.
C32_PushedIffFewer ==
    [][AtUpdateThatGoesOn =>
        (/\ ((propagation_queue' = Append(propagation_queue, neighbour))
                <=> (Len(new_indices_at(neighbour)) < Len(get_cell(neighbour))))
         /\ ((propagation_queue' # propagation_queue)
                <=> (Len(new_indices_at(neighbour)) < Len(get_cell(neighbour))))
         /\ ((cells' # cells)
                <=> (Len(new_indices_at(neighbour)) < Len(get_cell(neighbour))))
         /\ ((Len(new_indices_at(neighbour)) < Len(get_cell(neighbour)))
                => (cells' = [cells EXCEPT ![cell_index(neighbour)] =
                                              new_indices_at(neighbour)]))
         /\ ((Len(new_indices_at(neighbour)) = Len(get_cell(neighbour)))
                => UNCHANGED <<cells, propagation_queue, not_collapsed_positions,
                               min_non_collapsed>>))]_vars

\* C32 witness: a reduced cell is in the worklist and propagate is at a neighbour whose
\* update has the size the cell has
C32_Witness ==
    /\ AtUpdateThatGoesOn
    /\ new_indices_at(neighbour) = get_cell(neighbour)
    /\ propagation_queue # <<>>
    /\ Len(get_cell(propagation_queue[Len(propagation_queue)])) < Len(tiles)
    /\ pops > 0

\* collapse_tiles is about to hand a seed to collapse_position
AtSeedCollapse ==
    pc = "seed_collapse" /\ seed_i <= Len(seeds) /\ seed_is_valid(seed)

\* the loop of collapse() is about to select a position and collapse it
AtLoopCollapse ==
    pc = "loop" /\ ~collapsed /\ (min_non_collapsed # None \/ min_entropy_index # 0)

\* C33: collapse_position(p, i), called as its pre-conditions say on an open cell p with
\* an index i of that cell, sets the cell at p to exactly {i} and counts p off the
\* non-collapsed positions; every other cell and the propagation worklist are unchanged.
C33_LoopCollapseSetsOneCell ==
    [][AtLoopCollapse =>
        (/\ \E i \in possible(get_cell(selected.pos)) :
               cells' = [cells EXCEPT ![cell_index(selected.pos)] = <<i>>]
         /\ ~is_collapsed(get_cell(selected.pos))
         /\ propagation_queue' = propagation_queue
         /\ not_collapsed_positions' = not_collapsed_positions - 1)]_vars

\* C33 for the seeds of collapse_tiles: the cell at p is {i}, every other cell and the
\* worklist are unchanged, and an open p is counted off
C33_SeedCollapseSetsOneCell ==
    [][AtSeedCollapse =>
        (/\ cells' = [cells EXCEPT ![cell_index(seed[1])] = <<get_index(tiles, seed[2])>>]
         /\ propagation_queue' = propagation_queue
         /\ ((~is_collapsed(get_cell(seed[1])) /\ not_collapsed_positions > 0)
                => (not_collapsed_positions' = not_collapsed_positions - 1)))]_vars

\* C33 witness: the loop of collapse() has just collapsed a position on a board that
\* has other cells, one of them open
C33_Witness ==
    /\ pc = "call_propagate"
    /\ seed_i = 0
    /\ is_collapsed(get_cell(collapsed_position))
    /\ \E k \in 1..Len(cells) : k # cell_index(collapsed_position) /\ ~is_collapsed(cells[k])

\* C34: no backtracking: once a cell holds a single tile index, fixed by the collapse
\* loop or left by propagation, it holds exactly that index in every later state of the
\* run; propagation never rewrites a collapsed cell and the collapse loop never selects
\* a collapsed position.
C34_NoBacktracking ==
    [][(/\ (\A k \in 1..Len(cells) : (is_collapsed(cells[k]) => (cells'[k] = cells[k])))
        /\ (AtLoopCollapse => ~is_collapsed(get_cell(selected.pos))))]_vars

\* C34 witness: propagate is at a neighbour that is collapsed and is not the position
\* the loop has just collapsed, while another cell is open
C34_Witness ==
    /\ pc = "for"
    /\ pos_in_bounds(neighbour)
    /\ is_collapsed(get_cell(neighbour))
    /\ pops >= 2
    /\ \E k \in 1..Len(cells) : ~is_collapsed(cells[k])

(* --------------------- propagate as a function ------------------------ *)

\* the neighbour snapshot propagate takes for the cell at pos on the cells cs
snapshot_in(cs, pos) ==
    LET in_bounds == SelectSeq(cardinal_neighbours(pos), pos_in_bounds)
    IN  [k \in 1..Len(in_bounds) |-> cs[cell_index(in_bounds[k])]]

\* the orders in which four neighbours can be enumerated; <<1, 2, 3, 4>> is the order
\* of cardinal_neighbours
EnumerationOrders ==
    {o \in [1..4 -> 1..4] : \A a, b \in 1..4 : a # b => o[a] # o[b]}

\* Board::propagate run to its return on the cells cs, with the for loop at the n-th
\* neighbour of the popped position q in the enumeration order and the rest of the
\* worklist in queue: Panic stands for Err(CellHasZeroEntropy), Ok holds the cells left
RECURSIVE propagate_in_order(_, _, _, _, _)
propagate_in_order(order, cs, queue, q, n) ==
    IF n > 4
    THEN IF queue = <<>> THEN Ok(cs)
         ELSE propagate_in_order(order, cs, Tail(queue), Head(queue), 1)
    ELSE LET pos == cardinal_neighbours(q)[order[n]]
         IN  IF ~pos_in_bounds(pos) THEN propagate_in_order(order, cs, queue, q, n + 1)
             ELSE IF is_collapsed(cs[cell_index(pos)])
                  THEN propagate_in_order(order, cs, queue, q, n + 1)
             ELSE LET new_indices == update_cell(constraints, cs[cell_index(pos)],
                                                  snapshot_in(cs, pos))
                  IN  IF new_indices = <<>> THEN Panic
                      ELSE IF new_indices = cs[cell_index(pos)]
                           THEN propagate_in_order(order, cs, queue, q, n + 1)
                      ELSE propagate_in_order(
                               order, [cs EXCEPT ![cell_index(pos)] = new_indices],
                               Append(queue, pos), q, n + 1)

\* propagate whose first for loop looks at the last neighbour of the enumeration only
propagate_from_last_neighbour(order, cs, p) == propagate_in_order(order, cs, <<>>, p, 4)

\* propagate called from position p on the cells cs
propagate_from(order, cs, p) == propagate_in_order(order, cs, <<>>, p, 1)

C36_PropagateReachesFixedPoint ==
    AfterPropagateOk =>
        \A p \in Positions : propagate_from(<<1, 2, 3, 4>>, cells, p) = Ok(cells)

\* C36 witness: propagate has returned Ok after several pops on a board with a cell that
\* is reduced and still open
C36_Witness ==
    /\ AfterPropagateOk
    /\ pops >= 3
    /\ \E k \in 1..Len(cells) : Len(cells[k]) > 1 /\ Len(cells[k]) < Len(tiles)

C38_OneTileBoardIsCollapsed ==
    Len(tiles) = 1 =>
        /\ collapsed
        /\ outcome \in {"running", "Ok"}
        /\ pc \in {"loop", "done"}
        /\ pc = "done" => Len(result) = width * height

\* the positions propagate reads when it updates the neighbour it is at
PositionsRead ==
    {neighbour} \cup {cardinal_neighbours(neighbour)[n] :
                         n \in {m \in 1..4 : pos_in_bounds(cardinal_neighbours(neighbour)[m])}}

\* C39: propagation only reads or writes cells at positions with 0 <= x < width and
\* 0 <= y < height, reached through the linear index y * width + x, which maps distinct
\* in-bounds positions to distinct cells; the neighbour snapshot handed to the
\* constraints holds at most four entries, each the cell of an in-bounds cardinal
\* neighbour.
C39_PropagationStaysInBounds ==
    /\ [](/\ Len(cells) = width * height
          /\ \A p \in Positions : cell_index(p) \in 1..Len(cells)
          /\ \A p, q \in Positions : p # q => cell_index(p) # cell_index(q)
          /\ (pc = "for" /\ pos_in_bounds(neighbour)) =>
                /\ neighbour \in Positions
                /\ collapsed_position \in Positions
                /\ PositionsRead \subseteq Positions
                /\ Len(neighbour_snapshot(neighbour)) <= 4
                /\ Len(neighbour_snapshot(neighbour))
                      = Cardinality(InBoundsNeighbours(neighbour))
                /\ \A k \in 1..Len(neighbour_snapshot(neighbour)) :
                      \E q \in InBoundsNeighbours(neighbour) :
                          neighbour_snapshot(neighbour)[k] = cells[cell_index(q)])
    /\ [][(pc = "for") =>
             (\A k \in 1..Len(cells) :
                 ((cells'[k] # cells[k])
                     => (neighbour \in Positions /\ k = cell_index(neighbour))))]_vars

\* C39 witness: propagate updates a cell at the edge of the board: one of its cardinal
\* neighbours is out of bounds and three are in the snapshot
C39_Witness ==
    /\ AtUpdateCell
    /\ Len(neighbour_snapshot(neighbour)) = 3
    /\ \E n \in 1..4 : cardinal_neighbours(neighbour)[n] \notin Positions
    /\ \E n \in 1..4 : cardinal_neighbours(collapsed_position)[n] \notin Positions

=========================================================================
